---- MODULE Spec2Model ----
(***************************************************************************)
(* The EtherscanVerifier contract: the proof-gated update of balance.      *)
(*                                                                         *)
(* The contract is modelled as the ledger executes it: one transaction at  *)
(* a time, each submitBalance call running from its first statement to its *)
(* return or revert.  Byte strings are sequences of small numbers; the     *)
(* ABI-encoded journal is the sequence of its encoded items, so that       *)
(* abi.decode is a real conversion (it can fail, and it ignores whatever   *)
(* follows the sixth item).                                                *)
(***************************************************************************)
EXTENDS Integers, Sequences, FiniteSets, TLC

(***************************************************************************)
(* Bounds of the model.                                                    *)
(***************************************************************************)
MaxUrlLen == 3      \* longest url (in bytes) a journal carries
MaxEvents == 2      \* Spec: submissions are issued while the log is shorter than this
MaxSeqEvents == 3   \* SpecSeq: submissions are issued while the log is shorter than this
MaxBlock == 1       \* SpecSeq: block heights run 0..MaxBlock
MaxTxs == 3         \* SpecConc: transactions issued in all

VARIABLES
    VERIFIER,                          \* immutable: the verifier contract
    IMAGE_ID,                          \* immutable
    EXPECTED_NOTARY_KEY_FINGERPRINT,   \* immutable
    EXPECTED_QUERIES_HASH,             \* immutable
    expectedUrlPattern,                \* storage string
    balance,                           \* storage string
    events,                            \* the BalanceVerified events emitted so far
    blockNumber,                       \* block.number
    last,                              \* the transaction executed last, or NoCall
    verifierHalted,                    \* the verifier contract has stopped accepting calls
    mempool,                           \* transactions sent and not yet included
    chain,                             \* the included transactions, in inclusion order
    clients                            \* the submitProof invocations, one per account

vars == <<VERIFIER, IMAGE_ID, EXPECTED_NOTARY_KEY_FINGERPRINT,
          EXPECTED_QUERIES_HASH, expectedUrlPattern, balance, events,
          blockNumber, last, verifierHalted, mempool, chain, clients>>

ledgerVars == <<VERIFIER, IMAGE_ID, EXPECTED_NOTARY_KEY_FINGERPRINT,
                EXPECTED_QUERIES_HASH, expectedUrlPattern, balance, events,
                blockNumber, last, verifierHalted>>

netVars == <<mempool, chain>>

config == <<VERIFIER, IMAGE_ID, EXPECTED_NOTARY_KEY_FINGERPRINT,
            EXPECTED_QUERIES_HASH, expectedUrlPattern>>

(***************************************************************************)
(* Input values.                                                           *)
(***************************************************************************)
Bytes == {1, 2}
Callers == {"alice", "bob"}
Fingerprints == {"fpA", "fpB"}
QueriesHashes == {"qhA", "qhB"}
ImageIds == {"imgA", "imgB"}
Methods == {"GET", "get", "POST"}
Timestamps == {1700000000}
EmptyString == << >>
Balances == {EmptyString, <<1>>, <<2>>}

RECURSIVE SeqsUpTo(_, _)
SeqsUpTo(S, n) ==
    IF n = 0 THEN {<< >>}
    ELSE LET shorter == SeqsUpTo(S, n - 1)
         IN  shorter \cup {Append(s, b) : s \in {t \in shorter : Len(t) = n - 1}, b \in S}

Urls == SeqsUpTo(Bytes, MaxUrlLen)

\* Arguments the deployment was constructed with.
DeployedVerifier == "verifierAddr"
DeployedImageId == "imgA"
DeployedFingerprint == "fpA"
DeployedQueriesHash == "qhA"
DeployedUrlPattern == <<1, 2>>

(***************************************************************************)
(* abi.encode / abi.decode of the journal tuple                            *)
(* (bytes32, string, string, uint256, bytes32, string).                    *)
(***************************************************************************)
abi_encode(fp, method, url, timestamp, qh, bal) ==
    <<fp, method, url, timestamp, qh, bal>>

DecodeFailure == [ok |-> FALSE]

\* Fewer than six items: the decoder reverts.  Items after the sixth are
\* not read.
abi_decode(journalData) ==
    IF Len(journalData) < 6
    THEN DecodeFailure
    ELSE [ok |-> TRUE,
          notaryKeyFingerprint |-> journalData[1],
          method |-> journalData[2],
          url |-> journalData[3],
          timestamp |-> journalData[4],
          queriesHash |-> journalData[5],
          balance_ |-> journalData[6]]

CanonicalJournals ==
    {abi_encode(fp, m, u, t, qh, b) :
        fp \in Fingerprints, m \in Methods, u \in Urls,
        t \in Timestamps, qh \in QueriesHashes, b \in Balances}

\* Encodings followed by bytes the decoder never reads.
PaddedJournals ==
    {Append(abi_encode(DeployedFingerprint, "GET", u, t, DeployedQueriesHash, b), 0) :
        u \in Urls, t \in Timestamps, b \in Balances}

\* Byte strings too short to hold the tuple.
TruncatedJournals ==
    {<< >>, <<DeployedFingerprint>>,
     <<DeployedFingerprint, "GET", DeployedUrlPattern, 1700000000, DeployedQueriesHash>>}

JournalDatas == CanonicalJournals \cup PaddedJournals \cup TruncatedJournals

(***************************************************************************)
(* Hashes: injective on the byte strings of the model.                     *)
(***************************************************************************)
keccak256(bytes) == <<"keccak256", bytes>>
sha256(bytes) == <<"sha256", bytes>>

(***************************************************************************)
(* The verifier contract behind IRiscZeroVerifier.verify.  A seal is a     *)
(* receipt claiming (image id, journal digest), or bytes that are no       *)
(* receipt at all.  verify returns, or reverts with one of several errors. *)
(***************************************************************************)
Receipt(imageId, digest) == [kind |-> "receipt", imageId |-> imageId, digest |-> digest]
GarbageSeal == [kind |-> "garbage"]

\* The tuple's encoding without anything after it (the bytes themselves
\* when they hold no tuple).
Reencoded(journalData) ==
    IF Len(journalData) < 6 THEN journalData ELSE SubSeq(journalData, 1, 6)

\* The seals tried with a journal: its own receipt, a receipt of another
\* program, receipts of other journal bytes (longer ones, and the plain
\* encoding of the same tuple), and garbage.
SealsFor(journalData) ==
    {Receipt(DeployedImageId, sha256(journalData)),
     Receipt("imgB", sha256(journalData)),
     Receipt(DeployedImageId, sha256(Append(journalData, 0))),
     Receipt(DeployedImageId, sha256(Reencoded(journalData))),
     GarbageSeal}

VERIFIER_verify(seal, imageId, journalDigest) ==
    IF seal.kind # "receipt" THEN "Panic"
    ELSE IF seal.imageId = imageId /\ seal.digest = journalDigest THEN "ok"
    ELSE "VerificationFailed"

\* The external call VERIFIER.verify(seal, imageId, journalDigest) as the
\* contract at that address answers it now: a verifier that has been
\* stopped reverts on every call.
VERIFIER_call(halted, seal, imageId, journalDigest) ==
    IF halted THEN "Halted" ELSE VERIFIER_verify(seal, imageId, journalDigest)

(***************************************************************************)
(* submitBalance, statement by statement.                                  *)
(***************************************************************************)
\* Mutant: the fingerprint check is missing.
CheckNotaryKeyFingerprint_skipped(d, expectedFp) ==
    "pass"

CheckNotaryKeyFingerprint(d, expectedFp) ==
    IF d.notaryKeyFingerprint # expectedFp THEN "InvalidNotaryKeyFingerprint" ELSE "pass"

\* Mutant: the method is compared without regard to case.
CheckMethod_anyCase(d) ==
    IF d.method \notin {"GET", "get"} THEN "InvalidUrl" ELSE "pass"

CheckMethod(d) ==
    IF keccak256(d.method) # keccak256("GET") THEN "InvalidUrl" ELSE "pass"

\* Mutant: a queries-hash mismatch reverts with the url's error.
CheckQueriesHash_wrongError(d, expectedQh) ==
    IF d.queriesHash # expectedQh THEN "InvalidUrl" ELSE "pass"

CheckQueriesHash(d, expectedQh) ==
    IF d.queriesHash # expectedQh THEN "InvalidQueriesHash" ELSE "pass"

\* The for loop over the pattern's bytes (i counts from 1 here): TRUE when
\* some byte of the url differs from the pattern's byte at the same place.
RECURSIVE UrlLoopMismatch(_, _, _)
UrlLoopMismatch(urlBytes, patternBytes, i) ==
    IF i > Len(patternBytes) THEN FALSE
    ELSE IF urlBytes[i] # patternBytes[i] THEN TRUE
    ELSE UrlLoopMismatch(urlBytes, patternBytes, i + 1)

\* Mutant: the url must equal the pattern (no suffix allowed).
CheckUrl_exact(d, pattern) ==
    IF d.url # pattern THEN "InvalidUrl" ELSE "pass"

CheckUrl(d, pattern) ==
    LET urlBytes == d.url
        patternBytes == pattern
    IN  IF Len(urlBytes) < Len(patternBytes) THEN "InvalidUrl"
        ELSE IF UrlLoopMismatch(urlBytes, patternBytes, 1) THEN "InvalidUrl"
        ELSE "pass"

\* Mutant: the emptiness check is missing.
CheckBalance_skipped(d) ==
    "pass"

CheckBalance(d) ==
    IF Len(d.balance_) = 0 THEN "InvalidBalance" ELSE "pass"

\* Mutant: the url is checked before the queries hash.
LocalChecks_urlFirst(d, expectedFp, expectedQh, pattern) ==
    LET c1 == CheckNotaryKeyFingerprint(d, expectedFp)
        c2 == CheckMethod(d)
        c3 == CheckQueriesHash(d, expectedQh)
        c4 == CheckUrl(d, pattern)
        c5 == CheckBalance(d)
    IN  IF c1 # "pass" THEN c1
        ELSE IF c2 # "pass" THEN c2
        ELSE IF c4 # "pass" THEN c4
        ELSE IF c3 # "pass" THEN c3
        ELSE c5

\* The five checks in the order of the source; the first that fails reverts.
LocalChecks(d, expectedFp, expectedQh, pattern) ==
    LET c1 == CheckNotaryKeyFingerprint(d, expectedFp)
        c2 == CheckMethod(d)
        c3 == CheckQueriesHash(d, expectedQh)
        c4 == CheckUrl(d, pattern)
        c5 == CheckBalance(d)
    IN  IF c1 # "pass" THEN c1
        ELSE IF c2 # "pass" THEN c2
        ELSE IF c3 # "pass" THEN c3
        ELSE IF c4 # "pass" THEN c4
        ELSE c5

\* Mutant: only the verifier's own VerificationFailed error is caught;
\* any other fault of the call goes up as it is.
TryVerify_uncaught(verifyOutcome) ==
    IF verifyOutcome = "ok" THEN "ok"
    ELSE IF verifyOutcome = "VerificationFailed" THEN "ZKProofVerificationFailed"
    ELSE verifyOutcome

\* try VERIFIER.verify(...) {} catch { revert ZKProofVerificationFailed(); }
TryVerify(verifyOutcome) ==
    IF verifyOutcome = "ok" THEN "ok" ELSE "ZKProofVerificationFailed"

\* Mutant: the proof is verified first, whatever the local checks say.
VerifierCalls_first(local, call) ==
    <<call>>

\* The external calls a run makes: the verifier is called once the local
\* checks are behind, and not before.
VerifierCalls(local, call) ==
    IF local # "pass" THEN << >> ELSE <<call>>

\* Mutant: the last two arguments of the event are swapped.
BalanceVerified_swapped(balance_, url, timestamp, blockNumber_) ==
    [balance |-> balance_, url |-> url, timestamp |-> blockNumber_,
     blockNumber |-> timestamp]

\* event BalanceVerified(balance, url, timestamp, blockNumber)
BalanceVerified(balance_, url, timestamp, blockNumber_) ==
    [balance |-> balance_, url |-> url, timestamp |-> timestamp,
     blockNumber |-> blockNumber_]

\* Mutant: the digest is taken over the decoded tuple, encoded again.
JournalDigest_ofDecoded(journalData, d) ==
    sha256(abi_encode(d.notaryKeyFingerprint, d.method, d.url, d.timestamp,
                      d.queriesHash, d.balance_))

\* sha256(journalData): the digest of the bytes as submitted.
JournalDigest(journalData, d) ==
    sha256(journalData)

\* One execution of submitBalance: how it ends ("ok", or the error it
\* reverts with), the calls it made to the verifier, and the storage write
\* and the event it has performed when it reaches its last statement.
submitBalanceRun(journalData, seal, verifier, imageId, expectedFp, expectedQh, pattern, height, halted) ==
    LET d == abi_decode(journalData)
    IN  IF ~d.ok
        THEN [result |-> "DecodeFailure", verifierCalls |-> << >>,
              store |-> << >>, emitted |-> << >>]
        ELSE LET local == LocalChecks(d, expectedFp, expectedQh, pattern)
                 call == [to |-> verifier, seal |-> seal, imageId |-> imageId,
                          journalDigest |-> JournalDigest(journalData, d)]
                 calls == VerifierCalls(local, call)
             IN  IF local # "pass"
                 THEN [result |-> local, verifierCalls |-> calls,
                       store |-> << >>, emitted |-> << >>]
                 ELSE [result |-> TryVerify(VERIFIER_call(halted, seal, imageId,
                                                          JournalDigest(journalData, d))),
                       verifierCalls |-> calls,
                       store |-> <<d.balance_>>,
                       emitted |-> <<BalanceVerified(d.balance_, d.url, d.timestamp, height)>>]

\* Mutant: the new value is appended to the stored one.
CommittedBalance_appended(run, old) ==
    IF run.result = "ok" THEN old \o run.store[1] ELSE old

\* Mutant: a value already stored is not replaced (first submission wins).
CommittedBalance_firstWins(run, old) ==
    IF run.result = "ok" /\ old = << >> THEN run.store[1] ELSE old

\* Mutant: the catch block does not revert, so execution goes on to the write.
CommittedBalance_noRevert(run, old) ==
    IF run.store # << >> THEN run.store[1] ELSE old

\* What the ledger keeps of a transaction: its writes and events when it
\* returned, nothing when it reverted.
CommittedBalance(run, old) ==
    IF run.result = "ok" THEN run.store[1] ELSE old

\* Mutant: the event emitted before a revert stays in the log.
CommittedEvents_noRevert(run, old) ==
    old \o run.emitted

CommittedEvents(run, old) ==
    IF run.result = "ok" THEN old \o run.emitted ELSE old

(***************************************************************************)
(* The state machine.                                                      *)
(***************************************************************************)
\* Values of a JSON string field, and of the variables read from one:
\* absent, the empty string, or a 0x string (kept as the bytes it spells).
Undefined == [kind |-> "undefined"]
EmptyStr == [kind |-> "empty"]
Hex(bytes) == [kind |-> "hex", value |-> bytes]

\* A submitProof invocation that has not started.
IdleClient ==
    [pc |-> "idle", bundle |-> Undefined, zkProof |-> Undefined,
     journalData |-> Undefined, simulations |-> << >>, submissions |-> << >>, sent |-> << >>,
     console |-> << >>, error |-> Undefined, timer |-> "off", receipt |-> Undefined,
     result |-> Undefined]

NoCall == [kind |-> "none"]

\* Mutant: the two expected hashes are assigned to each other's field.
constructor_swapped(verifier_, imageId_, expectedFp_, expectedQh_, expectedUrlPattern_) ==
    /\ VERIFIER = verifier_
    /\ IMAGE_ID = imageId_
    /\ EXPECTED_NOTARY_KEY_FINGERPRINT = expectedQh_
    /\ EXPECTED_QUERIES_HASH = expectedFp_
    /\ expectedUrlPattern = expectedUrlPattern_
    /\ balance = EmptyString

constructor(verifier_, imageId_, expectedFp_, expectedQh_, expectedUrlPattern_) ==
    /\ VERIFIER = verifier_
    /\ IMAGE_ID = imageId_
    /\ EXPECTED_NOTARY_KEY_FINGERPRINT = expectedFp_
    /\ EXPECTED_QUERIES_HASH = expectedQh_
    /\ expectedUrlPattern = expectedUrlPattern_
    /\ balance = EmptyString

Init ==
    /\ constructor(DeployedVerifier, DeployedImageId, DeployedFingerprint,
                   DeployedQueriesHash, DeployedUrlPattern)
    /\ events = << >>
    /\ blockNumber = 0
    /\ last = NoCall
    /\ verifierHalted = FALSE
    /\ mempool = {}
    /\ chain = << >>
    /\ clients = [c \in Callers |-> IdleClient]

\* Mutant: only the first caller may submit.
CallerCheck_restricted(from) ==
    IF from # "alice" THEN "Unauthorized" ELSE "pass"

\* submitBalance is external and carries no modifier; nothing in it reads
\* msg.sender: every caller gets in.
CallerCheck(from) ==
    "pass"

\* The ledger executes a call of submitBalance(journalData, seal) sent by
\* `from`, from its first statement to its end, in the current block.
Transact(from, journalData, seal) ==
    /\ LET run == IF CallerCheck(from) # "pass"
                  THEN [result |-> CallerCheck(from), verifierCalls |-> << >>,
                        store |-> << >>, emitted |-> << >>]
                  ELSE submitBalanceRun(journalData, seal, VERIFIER, IMAGE_ID,
                                        EXPECTED_NOTARY_KEY_FINGERPRINT,
                                        EXPECTED_QUERIES_HASH, expectedUrlPattern,
                                        blockNumber, verifierHalted)
       IN  /\ balance' = CommittedBalance(run, balance)
           /\ events' = CommittedEvents(run, events)
           /\ last' = [kind |-> "submitBalance", journalData |-> journalData,
                       seal |-> seal, result |-> run.result,
                       verifierCalls |-> run.verifierCalls]
    /\ UNCHANGED <<config, blockNumber, verifierHalted>>

\* A transaction calling submitBalance(journalData, seal), from any caller,
\* is included as soon as it is sent.
submitBalance(journalData, seal) ==
    /\ \E from \in Callers : Transact(from, journalData, seal)
    /\ UNCHANGED <<netVars, clients>>

\* The transaction is over; the ledger takes the next one.
EndTx ==
    /\ last # NoCall
    /\ last' = NoCall
    /\ UNCHANGED <<config, balance, events, blockNumber, verifierHalted, netVars, clients>>

\* The ledger moves on to the next block.
MineBlock ==
    /\ last = NoCall
    /\ blockNumber < MaxBlock
    /\ blockNumber' = blockNumber + 1
    /\ UNCHANGED <<config, balance, events, last, verifierHalted, netVars, clients>>

\* The ledger executes one transaction at a time.  Every journal and seal
\* of the model, submitted to a contract whose log is shorter than MaxEvents.
Next ==
    \/ /\ last = NoCall
       /\ Len(events) < MaxEvents
       /\ \E journalData \in JournalDatas : \E seal \in SealsFor(journalData) :
              submitBalance(journalData, seal)
    \/ EndTx

Spec == Init /\ [][Next]_vars

\* Sequences of submissions over several blocks, each drawn from a few
\* journals: four that pass every local check, and one failing each check.
GoodUrls == {DeployedUrlPattern, Append(DeployedUrlPattern, 1)}

SeqJournals ==
    {abi_encode(DeployedFingerprint, "GET", u, 1700000000, DeployedQueriesHash, b) :
        u \in GoodUrls, b \in Balances \ {EmptyString}}
    \cup {abi_encode("fpB", "GET", DeployedUrlPattern, 1700000000, DeployedQueriesHash, <<1>>),
          abi_encode(DeployedFingerprint, "get", DeployedUrlPattern, 1700000000, DeployedQueriesHash, <<1>>),
          abi_encode(DeployedFingerprint, "GET", DeployedUrlPattern, 1700000000, "qhB", <<1>>),
          abi_encode(DeployedFingerprint, "GET", <<1>>, 1700000000, DeployedQueriesHash, <<1>>),
          abi_encode(DeployedFingerprint, "GET", DeployedUrlPattern, 1700000000, DeployedQueriesHash, EmptyString),
          << >>}

NextSeq ==
    \/ /\ last = NoCall
       /\ Len(events) < MaxSeqEvents
       /\ \E journalData \in SeqJournals : \E seal \in SealsFor(journalData) :
              submitBalance(journalData, seal)
    \/ EndTx
    \/ MineBlock

SpecSeq == Init /\ [][NextSeq]_vars

\* Submissions sent concurrently by several parties wait in the mempool;
\* the ledger includes them one at a time, in an order of its choosing.
ConcJournals ==
    {abi_encode(DeployedFingerprint, "GET", DeployedUrlPattern, 1700000000, DeployedQueriesHash, <<1>>),
     abi_encode(DeployedFingerprint, "GET", DeployedUrlPattern, 1700000000, DeployedQueriesHash, <<2>>),
     abi_encode(DeployedFingerprint, "GET", DeployedUrlPattern, 1700000000, "qhB", <<2>>),
     abi_encode(DeployedFingerprint, "GET", DeployedUrlPattern, 1700000000, DeployedQueriesHash, EmptyString)}

ConcSeals(journalData) ==
    {Receipt(DeployedImageId, sha256(journalData)), GarbageSeal}

\* `from` sends a transaction; an account has one transaction pending at a
\* time.
Issue(from, journalData, seal) ==
    /\ \A tx \in mempool : tx.from # from
    /\ Len(chain) + Cardinality(mempool) < MaxTxs
    /\ mempool' = mempool \cup {[from |-> from, journalData |-> journalData, seal |-> seal]}
    /\ UNCHANGED <<ledgerVars, chain, clients>>

\* The ledger includes a pending transaction and executes it.
Include(tx) ==
    /\ tx \in mempool
    /\ Transact(tx.from, tx.journalData, tx.seal)
    /\ mempool' = mempool \ {tx}
    /\ chain' = Append(chain, [from |-> tx.from, journalData |-> tx.journalData,
                               seal |-> tx.seal, result |-> last'.result,
                               status |-> IF last'.result = "ok" THEN "success" ELSE "reverted"])
    /\ UNCHANGED clients

NextConc ==
    \/ \E from \in Callers : \E journalData \in ConcJournals :
           \E seal \in ConcSeals(journalData) : Issue(from, journalData, seal)
    \/ \E tx \in mempool : Include(tx)

SpecConc == Init /\ [][NextConc]_vars

(***************************************************************************)
(* The submission client, submitProof.  An invocation runs from one await  *)
(* to the next; the requests it awaits are answered by the ledger above.   *)
(***************************************************************************)
Truthy(v) == v.kind = "hex"
IsString(v) == v.kind \in {"empty", "hex"}

\* Variant: the right operand is always taken.
JsOr_second(a, b) == b

\* a || b
JsOr(a, b) == IF Truthy(a) THEN a ELSE b

NoData == [present |-> FALSE]

\* proofData.data?.field
DataField(proofData, field) ==
    IF proofData.data.present THEN proofData.data[field] ELSE Undefined

\* Variant: only the wrapped form is read.
LoadedField_nestedOnly(proofData, field) == DataField(proofData, field)

\* proofData.data?.field || proofData.field
LoadedField(proofData, field) == JsOr(DataField(proofData, field), proofData[field])

\* !zkProof || !journalDataAbi
MissingField(zkProof, journalDataAbi) == ~Truthy(zkProof) \/ ~Truthy(journalDataAbi)

\* viem's decoder for the six-item tuple: it throws on data that does not
\* hold the six items.
decodeAbiParameters(data) ==
    IF Len(data) < 6 THEN [ok |-> FALSE]
    ELSE [ok |-> TRUE, notaryKeyFingerprint |-> data[1], method |-> data[2], url |-> data[3],
          timestamp |-> data[4], queriesHash |-> data[5], balance |-> data[6]]

\* new Error(message)
Error(message) == [message |-> message, data |-> Undefined, cause |-> [present |-> FALSE]]

\* Variant: the ABI lists only the standard errors.
contractABI_errors_standardOnly ==
    {"Error", "Panic"}

\* The names the client's ABI can decode a revert payload to.
contractABI_errors ==
    {"InvalidNotaryKeyFingerprint", "InvalidQueriesHash", "InvalidUrl", "InvalidBalance",
     "ZKProofVerificationFailed", "Error", "Panic"}

\* The payload a reverted call returns: the selector of the custom error,
\* or no bytes at all when the contract's abi.decode reverted.
RevertData(result) ==
    IF result = "DecodeFailure" THEN Hex([selector |-> "none"]) ELSE Hex([selector |-> result])

\* Where the error thrown by the RPC library carries the payload: on the
\* error itself, on its cause, or nowhere as a string.
ErrorShapes == {"top", "cause", "absent"}

RevertError(result, shape) ==
    [message |-> result,
     data |-> IF shape = "top" THEN RevertData(result) ELSE Undefined,
     cause |-> IF shape = "cause" THEN [present |-> TRUE, data |-> RevertData(result)]
               ELSE [present |-> FALSE]]

RpcFault == Error("RpcFault")

\* A fault of the node or the transport whose error carries a `data` string
\* that is no error of the contract.
UnrecognizedFault ==
    [message |-> "RpcFault", data |-> Hex([selector |-> "unknown"]), cause |-> [present |-> FALSE]]

\* What a request can fail with when the call itself was not rejected.
RequestFaults == {RpcFault, UnrecognizedFault}

\* Variant: the wait rejects with a revert error of the contract.
ConfirmationTimeout_asRejection ==
    [message |-> "ZKProofVerificationFailed", data |-> Hex([selector |-> "ZKProofVerificationFailed"]),
     cause |-> [present |-> FALSE]]

\* The error waitForTransactionReceipt rejects with when the receipt does
\* not come in time.
ConfirmationTimeout == Error("WaitForTransactionReceiptTimeout")

getRevertData(err) ==
    IF IsString(err.data) THEN err.data
    ELSE IF err.cause.present /\ IsString(err.cause.data) THEN err.cause.data
    ELSE Undefined

decodeErrorResult(data) ==
    IF data.value.selector \in contractABI_errors
        THEN [ok |-> TRUE, errorName |-> data.value.selector]
        ELSE [ok |-> FALSE]

\* Variant: the fallback never prints the raw payload.
Diagnose_noPayload(step, err) ==
    LET revertData == getRevertData(err)
    IN  IF Truthy(revertData) /\ decodeErrorResult(revertData).ok
            THEN <<[line |-> step, with |-> decodeErrorResult(revertData).errorName]>>
            ELSE <<[line |-> step, with |-> "message"]>>

\* The catch blocks of simulate and submit: what they write to console.error.
Diagnose(step, err) ==
    LET revertData == getRevertData(err)
    IN  IF Truthy(revertData)
            THEN IF decodeErrorResult(revertData).ok
                     THEN <<[line |-> step, with |-> decodeErrorResult(revertData).errorName]>>
                     ELSE <<[line |-> step, with |-> "message"],
                            [line |-> "Revert data", with |-> revertData.value.selector]>>
            ELSE <<[line |-> step, with |-> "message"]>>

\* catch (error) { console.error(...); throw new Error(...) }
OnDecodeFailure == "throw"

\* From the call of submitProof to its first await: the bundle is read, the
\* journal decoded, and the simulation requested.
Load(cl, proofData) ==
    LET zkProof == LoadedField(proofData, "zkProof")
        journalDataAbi == LoadedField(proofData, "journalDataAbi")
        started == [cl EXCEPT !.bundle = proofData]
    IN  IF MissingField(zkProof, journalDataAbi)
            THEN [started EXCEPT !.pc = "thrown", !.error = Error("InvalidProofFile")]
        ELSE IF ~decodeAbiParameters(journalDataAbi.value).ok /\ OnDecodeFailure = "throw"
            THEN [started EXCEPT !.pc = "thrown",
                                 !.zkProof = zkProof,
                                 !.console = <<[line |-> "Error decoding journalDataAbi", with |-> "error"]>>,
                                 !.error = Error("JournalDecodeFailure")]
        ELSE [started EXCEPT !.pc = "simulating",
                             !.zkProof = zkProof,
                             !.journalData = journalDataAbi,
                             !.console = IF decodeAbiParameters(journalDataAbi.value).ok THEN << >>
                                         ELSE <<[line |-> "Error decoding journalDataAbi", with |-> "error"]>>]

Start(c, proofData) ==
    /\ clients[c].pc = "idle"
    /\ clients' = [clients EXCEPT ![c] = Load(@, proofData)]
    /\ UNCHANGED <<ledgerVars, netVars>>

\* What a call of submitBalance by `from` would do on the ledger as it is.
CallOutcome(from, journalData, seal) ==
    IF CallerCheck(from) # "pass" THEN CallerCheck(from)
    ELSE submitBalanceRun(journalData, seal, VERIFIER, IMAGE_ID, EXPECTED_NOTARY_KEY_FINGERPRINT,
                          EXPECTED_QUERIES_HASH, expectedUrlPattern, blockNumber,
                          verifierHalted).result

\* Variant: a failed simulation is tried again.
AfterSimulation_retry(outcome) == IF outcome = "ok" THEN "submitting" ELSE "simulating"

\* Variant: the simulation's catch block does not rethrow.
AfterSimulation_swallowed(outcome) == "submitting"

\* await simulateContract(...) resolves, or the catch block rethrows.
AfterSimulation(outcome) == IF outcome = "ok" THEN "submitting" ELSE "thrown"

\* simulateContract answers: the node runs the call on its current state
\* and changes nothing; `err` is what the library throws if it throws.
Simulated(c, outcome, err) ==
    /\ clients[c].pc = "simulating"
    /\ clients' = [clients EXCEPT ![c] =
           [@ EXCEPT !.pc = AfterSimulation(outcome),
                     !.simulations = Append(@, [journalData |-> clients[c].journalData,
                                                seal |-> clients[c].zkProof,
                                                outcome |-> outcome]),
                     !.console = IF outcome = "ok" THEN @ ELSE @ \o Diagnose("Simulation failed", err),
                     !.error = IF outcome = "ok" THEN @ ELSE err]]
    /\ UNCHANGED <<ledgerVars, netVars>>

Simulate(c) ==
    /\ clients[c].pc = "simulating"
    /\ LET outcome == CallOutcome(c, clients[c].journalData.value, clients[c].zkProof.value)
       IN  \/ /\ outcome = "ok"
              /\ Simulated(c, "ok", Undefined)
           \/ /\ outcome # "ok"
              /\ \E shape \in ErrorShapes : Simulated(c, outcome, RevertError(outcome, shape))
           \/ \E err \in RequestFaults : Simulated(c, "RpcFault", err)

\* Variant: the journal sent is the decoded tuple, encoded again.
TransactionArgs_reencoded(cl) ==
    [journalData |-> Reencoded(cl.journalData.value), seal |-> cl.zkProof.value]

\* args: [journalData, zkProof as Hex], with journalData = journalDataAbi
TransactionArgs(cl) ==
    [journalData |-> cl.journalData.value, seal |-> cl.zkProof.value]

\* writeContract answers: the library first estimates gas by running the
\* call, then signs and broadcasts the transaction.
Submit(c) ==
    LET cl == clients[c]
        args == TransactionArgs(cl)
        outcome == CallOutcome(c, args.journalData, args.seal)
        tx == [from |-> c, journalData |-> args.journalData, seal |-> args.seal]
        attempt(how) == [journalData |-> args.journalData, seal |-> args.seal, outcome |-> how]
        failed(how, err) ==
            /\ clients' = [clients EXCEPT ![c] =
                   [@ EXCEPT !.pc = "thrown",
                             !.submissions = Append(@, attempt(how)),
                             !.console = @ \o Diagnose("Submission failed", err),
                             !.error = err]]
            /\ UNCHANGED <<ledgerVars, netVars>>
    IN  /\ cl.pc = "submitting"
        /\ \/ /\ outcome = "ok"
              /\ clients' = [clients EXCEPT ![c] =
                     [@ EXCEPT !.pc = "waiting",
                               !.timer = "running",
                               !.submissions = Append(@, attempt("ok")),
                               !.sent = Append(@, tx)]]
              /\ mempool' = mempool \cup {tx}
              /\ UNCHANGED <<ledgerVars, chain>>
           \/ /\ outcome # "ok"
              /\ \E shape \in ErrorShapes : failed(outcome, RevertError(outcome, shape))
           \/ \E err \in RequestFaults : failed("RpcFault", err)

\* The position in the chain of the transaction c sent, 0 while pending.
InclusionOf(c) ==
    IF \E i \in 1..Len(chain) : chain[i].from = c
        THEN CHOOSE i \in 1..Len(chain) : chain[i].from = c
        ELSE 0

\* Variant: the wait is never answered.
Confirm_unanswered(c) == FALSE

\* waitForTransactionReceipt resolves once the transaction is included;
\* the client then requests the stored balance.
Confirm(c) ==
    /\ clients[c].pc = "waiting"
    /\ InclusionOf(c) # 0
    /\ clients' = [clients EXCEPT ![c] =
           [@ EXCEPT !.pc = "reading",
                     !.receipt = [kind |-> "receipt", status |-> chain[InclusionOf(c)].status,
                                  index |-> InclusionOf(c)]]]
    /\ UNCHANGED <<ledgerVars, netVars>>

\* The time waitForTransactionReceipt allows runs out with the transaction
\* still pending.
TimerElapses(c) ==
    /\ clients[c].pc = "waiting"
    /\ clients[c].timer = "running"
    /\ InclusionOf(c) = 0
    /\ clients' = [clients EXCEPT ![c] = [@ EXCEPT !.timer = "elapsed"]]
    /\ UNCHANGED <<ledgerVars, netVars>>

\* waitForTransactionReceipt rejects with its timeout error; nothing
\* catches it inside submitProof.
TimeOut(c) ==
    /\ clients[c].pc = "waiting"
    /\ clients[c].timer = "elapsed"
    /\ clients' = [clients EXCEPT ![c] = [@ EXCEPT !.pc = "thrown", !.error = ConfirmationTimeout]]
    /\ UNCHANGED <<ledgerVars, netVars>>

\* waitForTransactionReceipt rejects with a transport fault; nothing
\* catches it inside submitProof.
WaitFails(c) ==
    /\ clients[c].pc = "waiting"
    /\ clients' = [clients EXCEPT ![c] = [@ EXCEPT !.pc = "thrown", !.error = RpcFault]]
    /\ UNCHANGED <<ledgerVars, netVars>>

\* Variant: the balance returned is the one decoded from the bundle.
ReturnedBalance_decoded(storedBalance, cl) ==
    decodeAbiParameters(cl.journalData.value).balance

\* balance: storedBalance
ReturnedBalance(storedBalance, cl) ==
    storedBalance

\* readContract answers with the stored balance and submitProof returns.
ReadBack(c) ==
    /\ clients[c].pc = "reading"
    /\ clients' = [clients EXCEPT ![c] =
           [@ EXCEPT !.pc = "returned",
                     !.result = [kind |-> "result", transactionHash |-> clients[c].sent[1],
                                 blockNumber |-> clients[c].receipt.index,
                                 balance |-> ReturnedBalance(balance, clients[c])]]]
    /\ UNCHANGED <<ledgerVars, netVars>>

\* readContract rejects.
ReadFails(c) ==
    /\ clients[c].pc = "reading"
    /\ clients' = [clients EXCEPT ![c] = [@ EXCEPT !.pc = "thrown", !.error = RpcFault]]
    /\ UNCHANGED <<ledgerVars, netVars>>

\* main: what the command line prints last and the exit code, once
\* submitProof has returned or thrown.
main(cl) ==
    IF cl.pc = "thrown"
        THEN [line |-> "Error", with |-> cl.error.message, exit |-> 1]
        ELSE [line |-> "Submission Complete", with |-> "result", exit |-> 0]

\* The values a string field of the bundle file takes.
NestedJournal == abi_encode(DeployedFingerprint, "GET", DeployedUrlPattern, 1700000000, DeployedQueriesHash, <<1>>)
TopLevelJournal == abi_encode(DeployedFingerprint, "GET", DeployedUrlPattern, 1700000000, DeployedQueriesHash, <<2>>)
RejectedJournal == abi_encode(DeployedFingerprint, "GET", DeployedUrlPattern, 1700000000, "qhB", <<2>>)
UndecodableJournal == <<1>>

JournalFields ==
    {Undefined, EmptyStr, Hex(NestedJournal), Hex(TopLevelJournal), Hex(RejectedJournal),
     Hex(UndecodableJournal)}

SealFields ==
    {Undefined, EmptyStr, Hex(Receipt(DeployedImageId, sha256(NestedJournal))),
     Hex(Receipt(DeployedImageId, sha256(TopLevelJournal)))}

\* Every bundle file: with or without the `data` wrapper, each field there
\* or not.
Bundles ==
    {[data |-> d, zkProof |-> s, journalDataAbi |-> j] :
        d \in {NoData} \cup {[present |-> TRUE, zkProof |-> ds, journalDataAbi |-> dj] :
                                ds \in SealFields, dj \in JournalFields},
        s \in SealFields, j \in JournalFields}

Wrapped(zkProof, journalDataAbi) ==
    [data |-> [present |-> TRUE, zkProof |-> zkProof, journalDataAbi |-> journalDataAbi],
     zkProof |-> Undefined, journalDataAbi |-> Undefined]

Unwrapped(zkProof, journalDataAbi) ==
    [data |-> NoData, zkProof |-> zkProof, journalDataAbi |-> journalDataAbi]

\* The contract at the verifier's address stops answering calls (an
\* emergency stop, an upgrade behind a router): its calls revert from now on.
HaltVerifier ==
    /\ ~verifierHalted
    /\ verifierHalted' = TRUE
    /\ UNCHANGED <<config, balance, events, blockNumber, last, netVars, clients>>

\* One invocation, on any bundle file.
NextLoad ==
    \/ \E proofData \in Bundles : Start("alice", proofData)
    \/ Simulate("alice")
    \/ Submit("alice")
    \/ \E tx \in mempool : Include(tx)
    \/ Confirm("alice")
    \/ TimerElapses("alice")
    \/ TimeOut("alice")
    \/ WaitFails("alice")
    \/ ReadBack("alice")
    \/ ReadFails("alice")

SpecLoad == Init /\ [][NextLoad]_vars

\* The same, with what the runtime guarantees: a request is answered, by
\* its result or by a fault; the timer of the wait runs out if nothing ends
\* the wait first; an answered promise resumes the function awaiting it.
LoadFairness ==
    /\ WF_vars(Simulate("alice"))
    /\ WF_vars(Submit("alice"))
    /\ WF_vars(Confirm("alice"))
    /\ WF_vars(TimerElapses("alice"))
    /\ WF_vars(TimeOut("alice"))
    /\ WF_vars(ReadBack("alice"))

SpecLoadFair == Init /\ [][NextLoad]_vars /\ LoadFairness

\* The bundles two concurrent invocations are run on.
ClientBundles ==
    {Wrapped(Hex(Receipt(DeployedImageId, sha256(NestedJournal))), Hex(NestedJournal)),
     Unwrapped(Hex(Receipt(DeployedImageId, sha256(TopLevelJournal))), Hex(TopLevelJournal)),
     Wrapped(Hex(Receipt(DeployedImageId, sha256(RejectedJournal))), Hex(RejectedJournal)),
     Wrapped(Hex(GarbageSeal), Hex(NestedJournal)),
     Wrapped(Hex(GarbageSeal), Hex(UndecodableJournal)),
     Unwrapped(Undefined, Hex(TopLevelJournal))}

\* Bundles whose journal fails one of the contract's checks, and one whose
\* journal carries bytes after the tuple.
WrongFingerprintJournal == abi_encode("fpB", "GET", DeployedUrlPattern, 1700000000, DeployedQueriesHash, <<1>>)
WrongMethodJournal == abi_encode(DeployedFingerprint, "POST", DeployedUrlPattern, 1700000000, DeployedQueriesHash, <<1>>)
WrongUrlJournal == abi_encode(DeployedFingerprint, "GET", <<2>>, 1700000000, DeployedQueriesHash, <<1>>)
EmptyBalanceJournal == abi_encode(DeployedFingerprint, "GET", DeployedUrlPattern, 1700000000, DeployedQueriesHash, EmptyString)
PaddedJournal == Append(NestedJournal, 0)

Proven(journalData) == Wrapped(Hex(Receipt(DeployedImageId, sha256(journalData))), Hex(journalData))

AllKindsBundles ==
    ClientBundles \cup
    {Proven(WrongFingerprintJournal), Proven(WrongMethodJournal), Proven(WrongUrlJournal),
     Proven(EmptyBalanceJournal), Proven(PaddedJournal)}

\* One invocation whose bundle passes or fails any one check, against a
\* verifier that may stop at any moment.
NextHalt ==
    \/ \E proofData \in AllKindsBundles : Start("alice", proofData)
    \/ Simulate("alice")
    \/ Submit("alice")
    \/ \E tx \in mempool : Include(tx)
    \/ Confirm("alice")
    \/ TimerElapses("alice")
    \/ TimeOut("alice")
    \/ WaitFails("alice")
    \/ ReadBack("alice")
    \/ ReadFails("alice")
    \/ HaltVerifier

SpecHalt == Init /\ [][NextHalt]_vars

NextClient ==
    \/ \E c \in Callers : \E proofData \in ClientBundles : Start(c, proofData)
    \/ \E c \in Callers : Simulate(c)
    \/ \E c \in Callers : Submit(c)
    \/ \E tx \in mempool : Include(tx)
    \/ \E c \in Callers : Confirm(c)
    \/ \E c \in Callers : TimerElapses(c)
    \/ \E c \in Callers : TimeOut(c)
    \/ \E c \in Callers : WaitFails(c)
    \/ \E c \in Callers : ReadBack(c)
    \/ \E c \in Callers : ReadFails(c)

SpecClient == Init /\ [][NextClient]_vars

(***************************************************************************)
(* Properties.  They speak of the transaction executed last: its           *)
(* arguments, the journal they decode to, how it ended.                    *)
(***************************************************************************)
Called == last.kind = "submitBalance"
Journal == abi_decode(last.journalData)
Decoded == Called /\ Journal.ok

\* pattern is a byte-for-byte prefix of url
HasPrefix(url, pattern) ==
    /\ Len(url) >= Len(pattern)
    /\ \A i \in 1..Len(pattern) : url[i] = pattern[i]

FingerprintOk == Journal.notaryKeyFingerprint = EXPECTED_NOTARY_KEY_FINGERPRINT
MethodOk == Journal.method = "GET"
QueriesHashOk == Journal.queriesHash = EXPECTED_QUERIES_HASH
UrlOk == HasPrefix(Journal.url, expectedUrlPattern)
ValueOk == Journal.balance_ # EmptyString
PassesLocalChecks ==
    Decoded /\ FingerprintOk /\ MethodOk /\ QueriesHashOk /\ UrlOk /\ ValueOk
VerifierAccepts ==
    VERIFIER_verify(last.seal, IMAGE_ID, sha256(last.journalData)) = "ok"
OwnReceipt == Receipt(IMAGE_ID, sha256(last.journalData))

\* The step is the execution of one submitBalance call.
CallStep == last.kind = "none" /\ last'.kind = "submitBalance"

\* C1: a submitBalance call whose journal passes the five local checks and
\* whose seal the verifier accepts leaves balance equal to the journal's
\* extractedValue and appends exactly one BalanceVerified event, carrying
\* (extractedValue, url, timestamp, block height of the call).
C1_ValidSubmissionCommits ==
    [][(CallStep /\ PassesLocalChecks' /\ VerifierAccepts') =>
          /\ last'.result = "ok"
          /\ balance' = Journal'.balance_
          /\ events' = Append(events, [balance |-> Journal'.balance_,
                                       url |-> Journal'.url,
                                       timestamp |-> Journal'.timestamp,
                                       blockNumber |-> blockNumber])]_vars

\* A valid submission at height 1 that replaced another value, its url
\* longer than the pattern.
C1_Witness ==
    /\ PassesLocalChecks /\ VerifierAccepts
    /\ last.result = "ok"
    /\ Len(events) = 2
    /\ events[1].balance # balance
    /\ events[2].blockNumber = 1
    /\ Len(Journal.url) > Len(expectedUrlPattern)

\* C2: a submitBalance call that aborts, whatever the reason, leaves the
\* persisted balance and the event log as they were before the call.
C2_AbortChangesNothing ==
    [][(CallStep /\ last'.result # "ok") =>
          (balance' = balance /\ events' = events)]_vars

\* A rejected proof for a journal that passes the local checks and carries
\* another value than the one stored.
C2_Witness ==
    /\ Called
    /\ last.result = "ZKProofVerificationFailed"
    /\ balance # EmptyString
    /\ Journal.balance_ # balance
    /\ Len(events) = 1

\* C3: a decodable journal whose notaryFingerprint differs from the expected
\* one aborts with InvalidNotaryKeyFingerprint, whatever its other fields and
\* the seal.
C3_WrongFingerprintAborts ==
    (Decoded /\ ~FingerprintOk) => last.result = "InvalidNotaryKeyFingerprint"

\* Every other field is wrong too, and the seal is garbage.
C3_Witness ==
    /\ Decoded /\ ~FingerprintOk
    /\ ~MethodOk /\ ~QueriesHashOk /\ ~UrlOk /\ ~ValueOk
    /\ last.seal = GarbageSeal
    /\ last.result = "InvalidNotaryKeyFingerprint"

\* C4, as stated: every journal whose method is not exactly "GET" aborts
\* with InvalidUrl.
C4_Original ==
    (Decoded /\ ~MethodOk) => last.result = "InvalidUrl"

\* C4, amended: every journal with the expected notary fingerprint whose
\* method is not exactly "GET" aborts with InvalidUrl.
C4_WrongMethodAborts ==
    (Decoded /\ FingerprintOk /\ ~MethodOk) => last.result = "InvalidUrl"

\* The case variant "get", in a journal that is valid otherwise and comes
\* with its own receipt.
C4_Witness ==
    /\ Decoded /\ FingerprintOk /\ Journal.method = "get"
    /\ QueriesHashOk /\ UrlOk /\ ValueOk
    /\ last.seal = OwnReceipt
    /\ last.result = "InvalidUrl"

\* C5, as stated: every journal whose queriesHash differs from the expected
\* one aborts with InvalidQueriesHash.
C5_Original ==
    (Decoded /\ ~QueriesHashOk) => last.result = "InvalidQueriesHash"

\* C5, amended: every journal with the expected notary fingerprint and the
\* method "GET" whose queriesHash differs from the expected one aborts with
\* InvalidQueriesHash.
C5_WrongQueriesHashAborts ==
    (Decoded /\ FingerprintOk /\ MethodOk /\ ~QueriesHashOk) =>
        last.result = "InvalidQueriesHash"

\* A wrong queries hash together with a wrong url and an empty value.
C5_Witness ==
    /\ Decoded /\ FingerprintOk /\ MethodOk /\ ~QueriesHashOk
    /\ ~UrlOk /\ ~ValueOk
    /\ last.result = "InvalidQueriesHash"

C7_Original ==
    (Decoded /\ ~ValueOk) => last.result = "InvalidBalance"

\* C7, amended: every journal that passes the fingerprint, method,
\* queries-hash and url checks and whose extractedValue is empty aborts with
\* InvalidBalance, also when the verifier would accept the seal.
C7_EmptyValueAborts ==
    (Decoded /\ FingerprintOk /\ MethodOk /\ QueriesHashOk /\ UrlOk /\ ~ValueOk) =>
        last.result = "InvalidBalance"

\* An empty value with a seal the verifier accepts for these journal bytes.
C7_Witness ==
    /\ Decoded /\ FingerprintOk /\ MethodOk /\ QueriesHashOk /\ UrlOk /\ ~ValueOk
    /\ VerifierAccepts
    /\ last.result = "InvalidBalance"

\* C8: when the journal passes the five local checks and the verifier's
\* call does not return (it reverts, with whatever error), the call aborts
\* with ZKProofVerificationFailed and balance and log stay as they were.
C8_VerifierFaultIsUniform ==
    [][(CallStep /\ PassesLocalChecks' /\ ~VerifierAccepts') =>
          /\ last'.result = "ZKProofVerificationFailed"
          /\ balance' = balance
          /\ events' = events]_vars

\* The verifier panics on a seal that is no receipt, with a value stored.
C8_Witness ==
    /\ PassesLocalChecks
    /\ VERIFIER_verify(last.seal, IMAGE_ID, sha256(last.journalData)) = "Panic"
    /\ last.result = "ZKProofVerificationFailed"
    /\ balance # EmptyString /\ Journal.balance_ # balance

\* C9: the verifier is called during a submitBalance call only if the
\* journal has passed the five local checks; a call that fails a local
\* check (or does not decode) never reaches the verifier.
C9_VerifierCalledAfterChecks ==
    (Called /\ last.verifierCalls # << >>) => PassesLocalChecks

\* Only the last local check fails, the seal is the journal's own receipt,
\* and the verifier was not called.
C9_Witness ==
    /\ Decoded /\ FingerprintOk /\ MethodOk /\ QueriesHashOk /\ UrlOk /\ ~ValueOk
    /\ last.seal = OwnReceipt
    /\ last.verifierCalls = << >>

\* The abort condition of the first failing check, in the order notary
\* fingerprint, method, queries hash, url prefix, non-empty value, proof.
FirstFailing ==
    IF ~FingerprintOk THEN "InvalidNotaryKeyFingerprint"
    ELSE IF ~MethodOk THEN "InvalidUrl"
    ELSE IF ~QueriesHashOk THEN "InvalidQueriesHash"
    ELSE IF ~UrlOk THEN "InvalidUrl"
    ELSE IF ~ValueOk THEN "InvalidBalance"
    ELSE IF ~VerifierAccepts THEN "ZKProofVerificationFailed"
    ELSE "ok"

\* C10: a rejected submitBalance call reports one abort condition, that of
\* the first failing check in the order notary fingerprint, method, queries
\* hash, url prefix, non-empty value, proof verification.
C10_FirstFailingCheckReported ==
    Decoded => last.result = FirstFailing

\* The queries hash, the url, the value and the seal are all wrong; the
\* queries hash is reported.
C10_Witness ==
    /\ Decoded /\ FingerprintOk /\ MethodOk
    /\ ~QueriesHashOk /\ ~UrlOk /\ ~ValueOk /\ ~VerifierAccepts
    /\ Len(Journal.url) >= Len(expectedUrlPattern)
    /\ last.result = "InvalidQueriesHash"
\* The contract's storage: the string slots (the immutables live in its code).
Storage == [expectedUrlPattern |-> expectedUrlPattern, balance |-> balance]

\* The storage of a freshly deployed contract after one valid submission of
\* value v.
StorageAfterOnly(v) == [expectedUrlPattern |-> DeployedUrlPattern, balance |-> v]

\* C11: a valid submission that follows a valid submission of another value
\* leaves balance equal to its own value, and the storage is what it would
\* be had only the second been submitted: nothing of the first value is
\* kept in it.
C11_SecondValueOverwrites ==
    [][(CallStep /\ last'.result = "ok"
          /\ balance # EmptyString /\ balance # Journal'.balance_) =>
          /\ balance' = Journal'.balance_
          /\ Storage' = StorageAfterOnly(Journal'.balance_)]_vars

\* Two events with different values; the stored value is the second.
C11_Witness ==
    /\ Called /\ last.result = "ok"
    /\ Len(events) = 2
    /\ events[1].balance # events[2].balance
    /\ balance = events[2].balance

(***************************************************************************)
(* Properties of the included transactions.                                *)
(***************************************************************************)
\* The submission passes the five local checks and the verifier accepts
\* its seal for its journal bytes.
ValidSubmission(tx) ==
    LET d == abi_decode(tx.journalData)
    IN  /\ d.ok
        /\ d.notaryKeyFingerprint = EXPECTED_NOTARY_KEY_FINGERPRINT
        /\ d.method = "GET"
        /\ d.queriesHash = EXPECTED_QUERIES_HASH
        /\ HasPrefix(d.url, expectedUrlPattern)
        /\ d.balance_ # EmptyString
        /\ VERIFIER_verify(tx.seal, IMAGE_ID, sha256(tx.journalData)) = "ok"

ValueOf(tx) == abi_decode(tx.journalData).balance_

ValidIndexes == {i \in 1..Len(chain) : ValidSubmission(chain[i])}

\* The value of the valid submission included last; empty when there is none.
LastValidValue ==
    IF ValidIndexes = {} THEN EmptyString
    ELSE ValueOf(chain[CHOOSE i \in ValidIndexes : \A j \in ValidIndexes : j <= i])

\* C12: whatever submissions different parties have pending at the same
\* time, and in whatever order the ledger includes them, balance is at every
\* point the value of the valid submission included last; rejected
\* submissions in between change nothing and no valid submission is refused
\* because another one came first.
C12_LastValidSubmissionWins ==
    balance = LastValidValue

\* Two valid submissions of different values from different senders, then
\* a rejected one carrying yet another value.
C12_Witness ==
    /\ Len(chain) = 3
    /\ ValidSubmission(chain[1]) /\ ValidSubmission(chain[2])
    /\ chain[1].from # chain[2].from
    /\ ValueOf(chain[1]) # ValueOf(chain[2])
    /\ ~ValidSubmission(chain[3])
    /\ ValueOf(chain[3]) # ValueOf(chain[2])
    /\ balance = ValueOf(chain[2])

SuccessIndexes == {i \in 1..Len(chain) : chain[i].status = "success"}

\* C13: the storage write and the event come together: the log holds as
\* many BalanceVerified events as submitBalance calls have succeeded, and
\* balance is the value carried by the latest event (empty when there is
\* none).
C13_WriteAndEventTogether ==
    /\ Len(events) = Cardinality(SuccessIndexes)
    /\ events # << >> => balance = events[Len(events)].balance
    /\ events = << >> => balance = EmptyString

\* Two successful calls and a reverted one that passed the local checks.
C13_Witness ==
    /\ Len(chain) = 3 /\ Len(events) = 2
    /\ chain[3].result = "ZKProofVerificationFailed"
    /\ ValueOf(chain[3]) # balance

\* C14: balance is empty at deployment; afterwards it is empty exactly as
\* long as no valid submission has been included, and otherwise it is the
\* non-empty value of an included submission that passed the five checks and
\* the proof; once non-empty it never becomes empty again.
C14_BalanceLifecycle ==
    /\ [](/\ balance = EmptyString <=> ValidIndexes = {}
          /\ balance # EmptyString =>
                \E i \in ValidIndexes : balance = ValueOf(chain[i]))
    /\ [][balance # EmptyString => balance' # EmptyString]_vars

\* A value is stored, and a submission with an empty value and a seal the
\* verifier accepts for it has been included after it.
C14_Witness ==
    /\ Len(chain) >= 2
    /\ ValidSubmission(chain[1])
    /\ ValueOf(chain[2]) = EmptyString
    /\ chain[2].seal = Receipt(IMAGE_ID, sha256(chain[2].journalData))
    /\ balance # EmptyString

\* C15: how a submitBalance call ends depends on its arguments (with the
\* deployment's configuration and the verifier's answer to them), not on
\* who sends it: included transactions with the same journal and seal end
\* the same way, whoever their senders are, and a call that commits stores
\* the value of its journal.
C15_OutcomeIgnoresCaller ==
    \A i \in 1..Len(chain) :
        /\ \A j \in 1..Len(chain) :
              (chain[i].journalData = chain[j].journalData /\ chain[i].seal = chain[j].seal)
                  => chain[i].result = chain[j].result
        /\ chain[i].result = "ok" <=> ValidSubmission(chain[i])

\* The same valid submission from two senders, and the same invalid one
\* from two senders.
C15_Witness ==
    /\ Len(chain) = 3
    /\ chain[1].journalData = chain[2].journalData /\ chain[1].seal = chain[2].seal
    /\ chain[1].from # chain[2].from
    /\ chain[1].result = "ok" /\ chain[2].result = "ok"
    /\ chain[3].result = "InvalidQueriesHash"

\* The five values the constructor was given.
DeployedConfig ==
    <<DeployedVerifier, DeployedImageId, DeployedFingerprint, DeployedQueriesHash,
      DeployedUrlPattern>>

\* C16: the deployment configuration (verifier, image id, expected notary
\* fingerprint, expected queries hash, expected url pattern) is what the
\* constructor was given, and stays so through every submitBalance call,
\* successful or failing.
C16_ConfigurationFixed ==
    config = DeployedConfig

\* A failing call after a successful one.
C16_Witness ==
    /\ Called /\ last.result = "InvalidUrl"
    /\ Len(events) = 1 /\ balance # EmptyString
    /\ config = DeployedConfig

\* C17: a submission commits only if the verifier was asked about, and
\* accepts, (seal, IMAGE_ID, digest of the journal bytes as submitted); a
\* seal that is a receipt for other journal bytes never commits, even when
\* the submitted bytes decode to a tuple that passes the five local checks.
C17_ProofBoundToRawBytes ==
    (Called /\ last.result = "ok") =>
        /\ last.verifierCalls =
              <<[to |-> VERIFIER, seal |-> last.seal, imageId |-> IMAGE_ID,
                 journalDigest |-> sha256(last.journalData)]>>
        /\ last.seal = OwnReceipt

\* Journal bytes with something after the tuple, submitted with the receipt
\* of the tuple's plain encoding: the local checks pass, the proof does not.
C17_Witness ==
    /\ PassesLocalChecks
    /\ Len(last.journalData) > 6
    /\ last.seal = Receipt(IMAGE_ID, sha256(SubSeq(last.journalData, 1, 6)))
    /\ last.result = "ZKProofVerificationFailed"
    /\ balance = EmptyString

(***************************************************************************)
(* Properties of the submission client.                                    *)
(***************************************************************************)
Started(c) == clients[c].pc # "idle"

\* the field is a non-empty string at the top level or under `data`
Present(proofData, field) ==
    \/ proofData.data.present /\ proofData.data[field].kind = "hex"
    \/ proofData[field].kind = "hex"

\* the invocation issued a simulation or a transaction
Issued(c) ==
    \/ clients[c].simulations # << >>
    \/ clients[c].sent # << >>
    \/ \E tx \in mempool : tx.from = c
    \/ \E i \in 1..Len(chain) : chain[i].from = c

InvalidProofFile(c) == clients[c].pc = "thrown" /\ clients[c].error.message = "InvalidProofFile"

\* C18: a bundle that has a non-empty zkProof and a non-empty journalDataAbi,
\* each at the top level or under `data`, is accepted by the load step and
\* those values are the ones carried on; a bundle in which one of the two is
\* missing or empty in both places ends the invocation with the
\* invalid-proof-file error, and the invocation issues no simulation and no
\* transaction.
C18_LoadAcceptsBothLayouts ==
    \A c \in Callers : Started(c) =>
        LET proofData == clients[c].bundle
        IN  IF Present(proofData, "zkProof") /\ Present(proofData, "journalDataAbi")
                THEN /\ ~InvalidProofFile(c)
                     /\ clients[c].zkProof \in {proofData.zkProof} \cup
                            (IF proofData.data.present THEN {proofData.data.zkProof} ELSE {})
                     /\ Truthy(clients[c].zkProof)
                     /\ clients[c].pc # "thrown" => Truthy(clients[c].journalData)
                ELSE InvalidProofFile(c) /\ ~Issued(c)

C18_Witness ==
    LET proofData == clients["alice"].bundle
    IN  /\ Started("alice")
        /\ proofData.data.present
        /\ proofData.data.zkProof = EmptyStr
        /\ proofData.zkProof = Undefined
        /\ Present(proofData, "journalDataAbi")
        /\ InvalidProofFile("alice")

\* the journalDataAbi string the load step takes from the bundle
JournalOf(proofData) ==
    IF proofData.data.present /\ proofData.data.journalDataAbi.kind = "hex"
        THEN proofData.data.journalDataAbi
        ELSE proofData.journalDataAbi

\* the bundle has both fields and its journal is not the six-item tuple
DiagnosticDecodeFails(c) ==
    /\ Started(c)
    /\ Present(clients[c].bundle, "zkProof")
    /\ Present(clients[c].bundle, "journalDataAbi")
    /\ Len(JournalOf(clients[c].bundle).value) < 6

\* C19: a failure of the client's diagnostic decode of the journal does not
\* block submission: the invocation never ends at the decode, before any
\* simulation was requested.
C19_DecodeFailureDoesNotBlock ==
    \A c \in Callers :
        DiagnosticDecodeFails(c) => ~(clients[c].pc = "thrown" /\ clients[c].simulations = << >>)

\* the invocation has a transaction of its own on the network
HasTransaction(c) ==
    \/ clients[c].sent # << >>
    \/ \E tx \in mempool : tx.from = c
    \/ \E i \in 1..Len(chain) : chain[i].from = c

SimulationFailed(c) ==
    \E i \in 1..Len(clients[c].simulations) : clients[c].simulations[i].outcome # "ok"

SimulationSucceededFor(c, tx) ==
    \E i \in 1..Len(clients[c].simulations) :
        /\ clients[c].simulations[i].outcome = "ok"
        /\ clients[c].simulations[i].journalData.value = tx.journalData
        /\ clients[c].simulations[i].seal.value = tx.seal

\* C20: an invocation sends its transaction only after its simulation of
\* the same call has succeeded (the success is already recorded in the state
\* the sending step starts from), and an invocation whose simulation failed,
\* for whatever reason, never has a transaction.
C20_SubmitOnlyAfterSimulation ==
    /\ [](\A c \in Callers :
            /\ SimulationFailed(c) => ~HasTransaction(c)
            /\ \A i \in 1..Len(clients[c].sent) : SimulationSucceededFor(c, clients[c].sent[i]))
    /\ [][\A c \in Callers :
            clients'[c].sent # clients[c].sent =>
                /\ ~SimulationFailed(c)
                /\ SimulationSucceededFor(c, clients'[c].sent[Len(clients'[c].sent)])]_vars

C20_Witness ==
    /\ clients["alice"].sent # << >>
    /\ SimulationSucceededFor("alice", clients["alice"].sent[1])
    /\ clients["bob"].pc = "thrown"
    /\ clients["bob"].simulations # << >>
    /\ clients["bob"].simulations[1].outcome = "InvalidQueriesHash"
    /\ ~HasTransaction("bob")

\* the five errors submitBalance reverts with
ValidatorKinds ==
    {"InvalidNotaryKeyFingerprint", "InvalidQueriesHash", "InvalidUrl", "InvalidBalance",
     "ZKProofVerificationFailed"}

\* the error carries an abort payload: a non-empty string in its `data` or
\* in its cause's `data`
CarriesPayload(err) ==
    \/ err.data.kind = "hex"
    \/ err.cause.present /\ err.cause.data.kind = "hex"

Logged(c, entry) == \E i \in 1..Len(clients[c].console) : clients[c].console[i] = entry

\* the request the invocation made last, and how the ledger answered it
LastSimulation(c) == clients[c].simulations[Len(clients[c].simulations)]
LastSubmission(c) == clients[c].submissions[Len(clients[c].submissions)]

SimulationRejected(c) ==
    /\ clients[c].simulations # << >>
    /\ LastSimulation(c).outcome \in ValidatorKinds

SubmissionRejected(c) ==
    /\ clients[c].submissions # << >>
    /\ LastSubmission(c).outcome \in ValidatorKinds

\* C21: when the simulation or the submission is rejected by the validator
\* with one of its five errors and the error thrown carries that payload,
\* the client logs that very error by name, logs no generic message in its
\* place, and the invocation ends by throwing the error it caught.
C21_ValidatorKindReported ==
    \A c \in Callers :
        /\ (SimulationRejected(c) /\ CarriesPayload(clients[c].error)) =>
              /\ Logged(c, [line |-> "Simulation failed", with |-> LastSimulation(c).outcome])
              /\ ~Logged(c, [line |-> "Simulation failed", with |-> "message"])
              /\ clients[c].pc = "thrown"
              /\ clients[c].error.message = LastSimulation(c).outcome
              /\ clients[c].result = Undefined
        /\ (SubmissionRejected(c) /\ CarriesPayload(clients[c].error)) =>
              /\ Logged(c, [line |-> "Submission failed", with |-> LastSubmission(c).outcome])
              /\ ~Logged(c, [line |-> "Submission failed", with |-> "message"])
              /\ clients[c].pc = "thrown"
              /\ clients[c].error.message = LastSubmission(c).outcome
              /\ clients[c].result = Undefined

C21_Witness ==
    /\ SubmissionRejected("alice")
    /\ LastSimulation("alice").outcome = "ok"
    /\ clients["alice"].error.cause.present
    /\ Logged("alice", [line |-> "Submission failed", with |-> "ZKProofVerificationFailed"])
    /\ clients["alice"].pc = "thrown"

\* the payload an error carries
PayloadOf(err) == IF err.data.kind = "hex" THEN err.data ELSE err.cause.data

\* the names the client knows a payload by
KnownKinds == ValidatorKinds \cup {"Error", "Panic"}

UnknownPayload(err) == CarriesPayload(err) /\ PayloadOf(err).value.selector \notin KnownKinds

SimulationAborted(c) ==
    /\ clients[c].simulations # << >>
    /\ LastSimulation(c).outcome # "ok"

SubmissionAborted(c) ==
    /\ clients[c].submissions # << >>
    /\ LastSubmission(c).outcome # "ok"

\* what the fallback path of a step has logged for the error the invocation
\* ended with: the generic message, with the raw payload when there is one
FellBack(c, step) ==
    /\ Logged(c, [line |-> step, with |-> "message"])
    /\ \A kind \in KnownKinds : ~Logged(c, [line |-> step, with |-> kind])
    /\ IF CarriesPayload(clients[c].error)
           THEN Logged(c, [line |-> "Revert data", with |-> PayloadOf(clients[c].error).value.selector])
           ELSE \A i \in 1..Len(clients[c].console) : clients[c].console[i].line # "Revert data"

\* C22: when the simulation or the submission aborts and the error carries a
\* payload that is no known error, the client logs the generic message and
\* the raw payload; when the error carries no payload it logs the generic
\* message alone; either way the invocation ends by throwing, with no result.
C22_FallbackStillFails ==
    \A c \in Callers :
        /\ (SimulationAborted(c) /\ (UnknownPayload(clients[c].error) \/ ~CarriesPayload(clients[c].error))) =>
              FellBack(c, "Simulation failed") /\ clients[c].pc = "thrown" /\ clients[c].result = Undefined
        /\ (SubmissionAborted(c) /\ (UnknownPayload(clients[c].error) \/ ~CarriesPayload(clients[c].error))) =>
              FellBack(c, "Submission failed") /\ clients[c].pc = "thrown" /\ clients[c].result = Undefined
        /\ (SimulationAborted(c) \/ SubmissionAborted(c)) => clients[c].pc = "thrown"

C22_Witness ==
    /\ SimulationAborted("alice")
    /\ UnknownPayload(clients["alice"].error)
    /\ Logged("alice", [line |-> "Revert data", with |-> "unknown"])
    /\ clients["alice"].pc = "thrown"

\* the zkProof string the load step takes from the bundle
SealOf(proofData) ==
    IF proofData.data.present /\ proofData.data.zkProof.kind = "hex"
        THEN proofData.data.zkProof
        ELSE proofData.zkProof

SameArguments(call, journalData, seal) ==
    call.journalData = journalData /\ call.seal = seal

\* C23: every simulation is made with the journal and seal strings of the
\* bundle as they are, and every call of writeContract and every
\* transaction sent carries the same two byte strings as the simulation.
C23_SubmitsWhatWasSimulated ==
    \A c \in Callers : Started(c) =>
        LET journalData == JournalOf(clients[c].bundle).value
            seal == SealOf(clients[c].bundle).value
        IN  /\ \A i \in 1..Len(clients[c].simulations) :
                   /\ clients[c].simulations[i].journalData = Hex(journalData)
                   /\ clients[c].simulations[i].seal = Hex(seal)
            /\ \A i \in 1..Len(clients[c].submissions) :
                   SameArguments(clients[c].submissions[i], journalData, seal)
            /\ \A i \in 1..Len(clients[c].sent) :
                   SameArguments(clients[c].sent[i], journalData, seal)
            /\ \A tx \in mempool : tx.from = c => SameArguments(tx, journalData, seal)
            /\ \A i \in 1..Len(chain) : chain[i].from = c => SameArguments(chain[i], journalData, seal)

C23_Witness ==
    /\ clients["alice"].bundle = Proven(PaddedJournal)
    /\ clients["alice"].sent = <<[from |-> "alice", journalData |-> PaddedJournal,
                                  seal |-> Receipt(DeployedImageId, sha256(PaddedJournal))]>>
    /\ Reencoded(PaddedJournal) # PaddedJournal
    /\ InclusionOf("alice") # 0

\* the invocation's transaction is in the chain
Included(c) ==
    \E i \in 1..Len(chain) :
        /\ chain[i].from = c
        /\ clients[c].sent = <<[from |-> c, journalData |-> chain[i].journalData, seal |-> chain[i].seal]>>

\* the value the client decoded from its own bundle
OwnValue(c) == abi_decode(JournalOf(clients[c].bundle).value).balance_

\* C24: the client asks for the stored value, and returns, only once its
\* transaction is included; the balance it returns is the value in the
\* contract's storage when the read is answered, whatever value its own
\* bundle carries.
C24_ReadBackAfterInclusion ==
    /\ [](\A c \in Callers : clients[c].pc \in {"reading", "returned"} => Included(c))
    /\ [][\A c \in Callers :
            clients'[c].result # clients[c].result =>
                /\ clients[c].pc = "reading"
                /\ Included(c)
                /\ clients'[c].result.balance = balance]_vars

C24_Witness ==
    /\ clients["alice"].pc = "returned"
    /\ Included("alice")
    /\ clients["alice"].result.balance # OwnValue("alice")
    /\ clients["alice"].result.balance = balance

\* the bundle has both fields, its journal passes the five checks and the
\* verifier accepts its seal for that journal
ValidBundle(c) ==
    /\ Started(c)
    /\ Present(clients[c].bundle, "zkProof")
    /\ Present(clients[c].bundle, "journalDataAbi")
    /\ ValidSubmission([journalData |-> JournalOf(clients[c].bundle).value,
                        seal |-> SealOf(clients[c].bundle).value])

TransportFailure(err) == err.message \in {"RpcFault", "WaitForTransactionReceiptTimeout"}

\* C25: one client, no other submitter, a valid bundle.  No step of the
\* invocation is refused: the simulation and the submission are never
\* rejected, the transaction is included with success, the only way the
\* invocation fails is a fault of the transport, and when it returns, the
\* balance it returns is the journal's value, which is the stored one.
C25_ValidBundleRoundTrip ==
    ValidBundle("alice") =>
        /\ \A i \in 1..Len(clients["alice"].simulations) :
               clients["alice"].simulations[i].outcome \in {"ok", "RpcFault"}
        /\ \A i \in 1..Len(clients["alice"].submissions) :
               clients["alice"].submissions[i].outcome \in {"ok", "RpcFault"}
        /\ clients["alice"].receipt # Undefined => clients["alice"].receipt.status = "success"
        /\ clients["alice"].pc = "thrown" => TransportFailure(clients["alice"].error)
        /\ clients["alice"].pc = "returned" =>
               /\ clients["alice"].result.balance = OwnValue("alice")
               /\ balance = OwnValue("alice")

C25_Witness ==
    /\ ValidBundle("alice")
    /\ clients["alice"].bundle.data.present
    /\ clients["alice"].pc = "returned"
    /\ LastSimulation("alice").outcome = "ok"
    /\ LastSubmission("alice").outcome = "ok"
    /\ clients["alice"].result.balance = <<1>>

\* the invocation ended while waiting for its transaction's receipt
WaitFailed(c) ==
    /\ clients[c].pc = "thrown"
    /\ clients[c].sent # << >>
    /\ clients[c].receipt = Undefined

\* C26: a failure while waiting for inclusion, after the transaction was
\* sent, is a timeout or a transport fault: the error that reaches the
\* caller names none of the five validator errors and carries no abort
\* payload, the command line prints that error's message and exits with 1,
\* and no line of the log names a validator error.
C26_WaitFailureIsNotRejection ==
    \A c \in Callers : WaitFailed(c) =>
        /\ clients[c].error.message \in {"WaitForTransactionReceiptTimeout", "RpcFault"}
        /\ ~CarriesPayload(clients[c].error)
        /\ main(clients[c]) = [line |-> "Error", with |-> clients[c].error.message, exit |-> 1]
        /\ main(clients[c]).with \notin ValidatorKinds
        /\ \A i \in 1..Len(clients[c].console) : clients[c].console[i].with \notin ValidatorKinds

C26_Witness ==
    /\ WaitFailed("alice")
    /\ clients["alice"].error.message = "WaitForTransactionReceiptTimeout"
    /\ \E tx \in mempool : tx.from = "alice"

\* the transactions of the invocation's account on the network
TransactionsOf(c) ==
    Cardinality({tx \in mempool : tx.from = c}) +
    Cardinality({i \in 1..Len(chain) : chain[i].from = c})

\* C27: an invocation simulates at most once, calls writeContract at most
\* once and has at most one transaction; once its simulation or its
\* submission has failed it has thrown, it has no transaction, no receipt
\* and no result, and (like every invocation that has thrown) it takes no
\* further step.
C27_FailureIsTerminal ==
    /\ [](\A c \in Callers :
            /\ Len(clients[c].simulations) <= 1
            /\ Len(clients[c].submissions) <= 1
            /\ Len(clients[c].sent) <= 1
            /\ TransactionsOf(c) <= 1
            /\ (SimulationAborted(c) \/ SubmissionAborted(c)) =>
                  /\ clients[c].pc = "thrown"
                  /\ ~HasTransaction(c)
                  /\ clients[c].receipt = Undefined
                  /\ clients[c].result = Undefined
            /\ SimulationAborted(c) => clients[c].submissions = << >>)
    /\ [][\A c \in Callers : clients[c].pc = "thrown" => clients'[c] = clients[c]]_vars

C27_Witness ==
    /\ ValidBundle("alice")
    /\ SimulationAborted("alice")
    /\ LastSimulation("alice").outcome = "RpcFault"
    /\ clients["alice"].pc = "thrown"
    /\ clients["alice"].submissions = << >>
    /\ ~HasTransaction("alice")

Pending(c) == \E tx \in mempool : tx.from = c
Waiting(c) == clients[c].pc = "waiting"
Terminated(c) == clients[c].pc \in {"returned", "thrown"}

\* the invocation has one outcome: a result and no error, or an error and
\* no result
OneOutcome(c) ==
    /\ clients[c].pc = "returned" => clients[c].result # Undefined /\ clients[c].error = Undefined
    /\ clients[c].pc = "thrown" => clients[c].error # Undefined /\ clients[c].result = Undefined
    /\ ~Terminated(c) => clients[c].result = Undefined

OwnTransaction(c) == chain[InclusionOf(c)]

\* C29: whenever submitProof has returned a result, the transaction it sent
\* is in the chain and was executed with success: its receipt's status is
\* success and its submitBalance call returned.
C29_ResultMeansSuccess ==
    \A c \in Callers : clients[c].pc = "returned" =>
        /\ Included(c)
        /\ clients[c].receipt.status = "success"
        /\ OwnTransaction(c).result = "ok"

\* C30: with invocations running side by side on valid bundles, the value an
\* invocation reads back is, at the moment of the read, the value of the
\* valid submission included last, its own or another's: it is not empty and
\* it is the value of a valid submission in the chain.  (That it need not be
\* the invocation's own value is what the witness shows.)
C30_ReadBackIsLatestValid ==
    [][\A c \in Callers :
          (ValidBundle(c) /\ clients'[c].result # clients[c].result) =>
              /\ clients'[c].result.balance = LastValidValue
              /\ clients'[c].result.balance # EmptyString
              /\ \E i \in ValidIndexes : clients'[c].result.balance = ValueOf(chain[i])]_vars

C30_Witness ==
    /\ ValidBundle("alice") /\ ValidBundle("bob")
    /\ clients["alice"].pc = "returned" /\ clients["bob"].pc = "returned"
    /\ OwnValue("alice") # OwnValue("bob")
    /\ clients["alice"].result.balance = OwnValue("bob")
    /\ clients["bob"].result.balance = OwnValue("bob")

====
